---- MODULE Spec2Model ----
(***************************************************************************)
(* Box Least Squares transit search of src/python/bls_search.py.           *)
(*                                                                         *)
(* bls_search is modelled as a state machine: Preprocess (lines 185-208),  *)
(* one PeriodIteration per trial period (the loop body, lines 209-213) and *)
(* Finalize (lines 215-220).  Every helper of the source is an operator of *)
(* the same name.                                                          *)
(*                                                                         *)
(* Numbers.  The arguments minper, maxper, mindur, maxdur and the bin       *)
(* indices are integers.  Periods are exact rationals <<numerator,         *)
(* denominator>>.  Every other floating-point value (times, fluxes, flux   *)
(* errors, statistics) is a record [k, v]: k = "num" with the value        *)
(* v / Scale (fixed point), k = "nan", or k = "inf" with the sign v.       *)
(* Sequences are 1-based: Python's a[i] is a[i + 1] here.                  *)
(***************************************************************************)
EXTENDS Integers, Sequences, FiniteSets, TLC

\* ------------------------------------------------------------ bounds
\* Resolution of the fixed-point values: one unit is 1 / Scale.
Scale == 100
\* Longest enumerated input series.
MaxLen == 3
\* Latest time stamp (days) of an enumerated input series.
MaxTime == 3

\* ------------------------------------------------- program constants
HoursPerDay == 24
\* 0.02083333 (30 minutes in days) as HalfHourNum / HalfHourDen
HalfHourNum == 2083333
HalfHourDen == 100000000
\* offset of BJD0
BJDOffset == 2454833

\* --------------------------------------------------- integer helpers
Min(a, b) == IF a <= b THEN a ELSE b
Max(a, b) == IF a >= b THEN a ELSE b
IAbs(a) == IF a < 0 THEN -a ELSE a

RECURSIVE GCD(_, _)
GCD(a, b) == IF b = 0 THEN a ELSE GCD(b, a % b)

RECURSIVE ISqrtIter(_, _, _)
\* largest r in lo..hi with r * r <= n (lo * lo <= n < (hi + 1) * (hi + 1))
ISqrtIter(n, lo, hi) ==
    IF lo >= hi THEN lo
    ELSE LET mid == (lo + hi + 1) \div 2
         IN  IF mid * mid <= n THEN ISqrtIter(n, mid, hi)
             ELSE ISqrtIter(n, lo, mid - 1)

ISqrt(n) == ISqrtIter(n, 0, Min(n, 46340))

\* Python's a[i1:i2] for 0 <= i1: the slice is cut at the end of a.
Slice(a, i1, i2) == SubSeq(a, i1 + 1, Min(i2, Len(a)))

RECURSIVE SumInt(_)
SumInt(a) == IF a = <<>> THEN 0 ELSE Head(a) + SumInt(Tail(a))

\* ---------------------------------------------------------- rationals
R(n, d) == LET g == GCD(IAbs(n), IAbs(d))
           IN  IF d < 0 THEN <<(-n) \div g, (-d) \div g>> ELSE <<n \div g, d \div g>>
RInt(n) == <<n, 1>>
RAdd(a, b) == R(a[1] * b[2] + b[1] * a[2], a[2] * b[2])
RSub(a, b) == R(a[1] * b[2] - b[1] * a[2], a[2] * b[2])
RMul(a, b) == R(a[1] * b[1], a[2] * b[2])
RDiv(a, b) == R(a[1] * b[2], a[2] * b[1])
RFloor(a) == a[1] \div a[2]
RCeil(a) == -((-a[1]) \div a[2])
RLess(a, b) == a[1] * b[2] < b[1] * a[2]

\* ------------------------------------------------ floating-point values
Num(v) == [k |-> "num", v |-> v]
NaN == [k |-> "nan", v |-> 0]
Inf(sign) == [k |-> "inf", v |-> sign]
FromInt(n) == Num(n * Scale)
IsNaN(a) == a.k = "nan"
IsNum(a) == a.k = "num"
\* numpy.isfinite
isfinite(a) == a.k = "num"
Sign(a) == IF a.v < 0 THEN -1 ELSE IF a.v > 0 THEN 1 ELSE 0

\* quotient of integers rounded toward zero
TruncDiv(a, b) == LET q == IAbs(a) \div IAbs(b)
                  IN  IF (a < 0) = (b < 0) THEN q ELSE -q

FAdd(a, b) ==
    IF IsNaN(a) \/ IsNaN(b) THEN NaN
    ELSE IF IsNum(a) /\ IsNum(b) THEN Num(a.v + b.v)
    ELSE IF IsNum(a) THEN b
    ELSE IF IsNum(b) THEN a
    ELSE IF a.v = b.v THEN a ELSE NaN

FNeg(a) == IF IsNaN(a) THEN NaN ELSE [k |-> a.k, v |-> -a.v]
FSub(a, b) == FAdd(a, FNeg(b))

FMul(a, b) ==
    IF IsNaN(a) \/ IsNaN(b) THEN NaN
    ELSE IF IsNum(a) /\ IsNum(b) THEN Num(TruncDiv(a.v * b.v, Scale))
    ELSE IF Sign(a) = 0 \/ Sign(b) = 0 THEN NaN
    ELSE Inf(Sign(a) * Sign(b))

\* IEEE division as numpy performs it: x / 0 is inf, 0 / 0 is nan, no exception
FDiv(a, b) ==
    IF IsNaN(a) \/ IsNaN(b) THEN NaN
    ELSE IF IsNum(a) /\ IsNum(b)
         THEN IF b.v # 0 THEN Num(TruncDiv(a.v * Scale, b.v))
              ELSE IF a.v = 0 THEN NaN ELSE Inf(Sign(a))
    ELSE IF IsNum(b) THEN Inf(IF b.v < 0 THEN -a.v ELSE a.v)
    ELSE IF IsNum(a) THEN Num(0)
    ELSE NaN

FAbs(a) == IF IsNaN(a) THEN NaN ELSE [k |-> a.k, v |-> IAbs(a.v)]

\* math.sqrt of a value that is not negative
FSqrt(a) == IF IsNum(a) THEN Num(ISqrt(a.v * Scale)) ELSE a

\* a > b; every comparison with nan is false
FGt(a, b) ==
    IF IsNaN(a) \/ IsNaN(b) THEN FALSE
    ELSE IF IsNum(a) /\ IsNum(b) THEN a.v > b.v
    ELSE IF IsNum(a) THEN b.v < 0
    ELSE IF IsNum(b) THEN a.v > 0
    ELSE a.v > b.v

FEq(a, b) == ~IsNaN(a) /\ ~IsNaN(b) /\ a = b
FGe(a, b) == FGt(a, b) \/ FEq(a, b)

RECURSIVE FSum(_)
\* numpy.sum
FSum(a) == IF a = <<>> THEN Num(0) ELSE FAdd(Head(a), FSum(Tail(a)))

RECURSIVE nansum(_)
\* numpy.nansum: nan entries count as zero
nansum(a) == IF a = <<>> THEN Num(0)
             ELSE FAdd(IF IsNaN(Head(a)) THEN Num(0) ELSE Head(a), nansum(Tail(a)))

\* numpy.mean: the mean of no value is nan
FMean(a) == FDiv(FSum(a), FromInt(Len(a)))

RECURSIVE FMaxSeq(_)
\* numpy.max of a sequence without nan
FMaxSeq(a) == IF Len(a) = 1 THEN a[1]
              ELSE LET m == FMaxSeq(Tail(a)) IN IF FGt(m, a[1]) THEN m ELSE a[1]

\* ------------------------------------------------------ bls_search.py
Col(m, c) == [j \in 1..Len(m) |-> m[j][c]]

\* the order numpy sorts floats in: ascending, nan last
SortLe(a, b) == IsNaN(b) \/ (~IsNaN(a) /\ ~FGt(a, b))

RECURSIVE FSort(_)
FSort(a) ==
    IF a = <<>> THEN <<>>
    ELSE LET i == CHOOSE i \in 1..Len(a) : \A j \in 1..Len(a) : SortLe(a[i], a[j])
         IN  <<a[i]>> \o FSort(SubSeq(a, 1, i - 1) \o SubSeq(a, i + 1, Len(a)))

\* flux_array.sort(axis=0) (line 186): numpy sorts along axis 0, that is,
\* each of the three columns on its own
sort_axis0(m) ==
    LET t == FSort(Col(m, 1))
        f == FSort(Col(m, 2))
        e == FSort(Col(m, 3))
    IN  [j \in 1..Len(m) |-> <<t[j], f[j], e[j]>>]

IsFiniteRow(row) == isfinite(row[2])

\* lines 189-190
flux_array_finite(flux) == SelectSeq(sort_axis0(flux), IsFiniteRow)

\* check_period: TRUE when it raises
check_period(intime, maxper) ==
    LET tr == FSub(intime[Len(intime)], intime[1])
    IN  FGt(FromInt(maxper), tr)

\* numpy.arange(start, stop, step): ceil((stop - start) / step) values
arange(start, stop, step) ==
    LET n == RCeil(RDiv(RSub(stop, start), step))
    IN  [i \in 1..Max(n, 0) |-> RAdd(start, RMul(step, RInt(i - 1)))]

\* lines 206-207
TrialPeriodGrid(lo, hi, n) ==
    LET dPeriod == RDiv(RSub(RInt(hi), RInt(lo)), RInt(n))
    IN  arange(RInt(lo), RAdd(RInt(hi), dPeriod), dPeriod)

\* compute_weights (never called by period_iteration)
compute_weights(work4, work5) ==
    LET inv == [i \in 1..Len(work5) |-> FDiv(FromInt(1), FMul(work5[i], work5[i]))]
        sigmaSum == nansum(inv)
        om == [i \in 1..Len(work5) |-> FDiv(inv[i], sigmaSum)]
    IN  <<[i \in 1..Len(work4) |-> FMul(om[i], work4[i])], om>>

\* phase_bin without the floor of line 84 subtracted
phase_bin_unfolded(w, trialFrequency, bins) ==
    RFloor(RMul(RMul(R(w.v, Scale), trialFrequency), RInt(bins)))

\* lines 83-85: the phase bin of a sample at time w (a fixed-point value)
phase_bin(w, trialFrequency, bins) ==
    LET x == RMul(R(w.v, Scale), trialFrequency)
    IN  RFloor(RMul(RSub(x, RInt(RFloor(x))), RInt(bins)))

phase_of(work1, trialFrequency, bins) ==
    [j \in 1..Len(work1) |-> phase_bin(work1[j], trialFrequency, bins)]

\* line 90: the samples of bin i
elements(phase, i) == {j \in 1..Len(phase) : phase[j] = i}

RECURSIVE SeqOfSet(_)
SeqOfSet(S) == IF S = {} THEN <<>>
               ELSE LET m == CHOOSE x \in S : \A y \in S : x <= y
                    IN  <<m>> \o SeqOfSet(S \ {m})

compute_folded(bins, work1_, work2_, inerr_, trialFrequency, duration2) ==
    LET ph == phase_of(work1_, trialFrequency, bins)
        el(i) == SeqOfSet(elements(ph, i))
        w4 == [b \in 1..bins |->
                 LET e == el(b - 1) IN FMean([x \in 1..Len(e) |-> work2_[e[x]]])]
        w5 == [b \in 1..bins |->
                 LET e == el(b - 1)
                 IN  FSqrt(FDiv(FSum([x \in 1..Len(e) |-> FMul(inerr_[e[x]], inerr_[e[x]])]),
                                FromInt(Len(e))))]
    IN  \* lines 95-96: extend the work arrays beyond nbins by wrapping
        [phase |-> ph,
         work4 |-> w4 \o Slice(w4, 0, duration2),
         work5 |-> w5 \o Slice(w5, 0, duration2)]

\* initialize_iteration with the new slot started at the previous maximum
initialize_iteration_carry(srMax_, transitDuration_, transitPhase_, trialPeriod, mindur_, maxdur_, bins) ==
    [srMax |-> Append(srMax_, IF srMax_ = <<>> THEN Num(0) ELSE srMax_[Len(srMax_)]),
     transitDuration |-> Append(transitDuration_, NaN),
     transitPhase |-> Append(transitPhase_, NaN),
     trialFrequency |-> RDiv(RInt(1), trialPeriod),
     duration1 |-> Max(RFloor(RDiv(R(bins * mindur_, HoursPerDay), trialPeriod)), 2),
     duration2 |-> Max(RFloor(RDiv(R(bins * maxdur_, HoursPerDay), trialPeriod)) + 1,
                       Max(RFloor(RDiv(R(bins * mindur_, HoursPerDay), trialPeriod)), 2) + 1),
     halfHour |-> ((HalfHourNum * bins * trialPeriod[2]) \div HalfHourDen) \div trialPeriod[1] + 1]

\* lines 104-116
initialize_iteration(srMax_, transitDuration_, transitPhase_, trialPeriod, mindur_, maxdur_, bins) ==
    [srMax |-> Append(srMax_, Num(0)),
     transitDuration |-> Append(transitDuration_, NaN),
     transitPhase |-> Append(transitPhase_, NaN),
     trialFrequency |-> RDiv(RInt(1), trialPeriod),
     duration1 |-> Max(RFloor(RDiv(R(bins * mindur_, HoursPerDay), trialPeriod)), 2),
     duration2 |-> Max(RFloor(RDiv(R(bins * maxdur_, HoursPerDay), trialPeriod)) + 1,
                       Max(RFloor(RDiv(R(bins * mindur_, HoursPerDay), trialPeriod)), 2) + 1),
     halfHour |-> ((HalfHourNum * bins * trialPeriod[2]) \div HalfHourDen) \div trialPeriod[1] + 1]

\* the statistic sr of lines 54-58
window_sr(i1, duration, s_, omega_) ==
    LET i2 == i1 + duration
        sl == Slice(s_, i1, i2)
        sr1 == FSum([x \in 1..Len(sl) |-> FMul(sl[x], sl[x])])
        sr2 == FSum(Slice(omega_, i1, i2))
    IN  FSqrt(FAbs(FDiv(sr1, FMul(sr2, FSub(FromInt(1), sr2)))))

SetLast(a, x) == [a EXCEPT ![Len(a)] = x]

\* sub_iterate with sr >= srMax[-1] for the test of line 59
sub_iterate_ties(i1, duration, s_, omega_, b) ==
    LET i2 == i1 + duration
        sr == window_sr(i1, duration, s_, omega_)
    IN  IF FGe(sr, b[1][Len(b[1])])
        THEN <<SetLast(b[1], sr),
               SetLast(b[2], FromInt(duration)),
               SetLast(b[3], FromInt((i1 + i2) \div 2))>>
        ELSE b

\* sub_iterate on the triple b = <<srMax, transitDuration, transitPhase>>
sub_iterate(i1, duration, s_, omega_, b) ==
    LET i2 == i1 + duration
        sr == window_sr(i1, duration, s_, omega_)
    IN  IF FGt(sr, b[1][Len(b[1])])
        THEN <<SetLast(b[1], sr),
               SetLast(b[2], FromInt(duration)),
               SetLast(b[3], FromInt((i1 + i2) \div 2))>>
        ELSE b

\* range(duration1, duration2 + 1, halfHour)
DurationRange(duration1, duration2, halfHour) ==
    [x \in 1..((duration2 - duration1) \div halfHour + 1) |-> duration1 + (x - 1) * halfHour]

\* the windows <<i1, duration>> in the order lines 71-73 visit them
ScanOrder(bins, duration1, duration2, halfHour) ==
    LET ds == DurationRange(duration1, duration2, halfHour)
    IN  [x \in 1..(bins * Len(ds)) |-> <<(x - 1) \div Len(ds), ds[((x - 1) % Len(ds)) + 1]>>]

RECURSIVE ScanFrom(_, _, _, _, _, _)
\* sub_iterate applied to the windows w[lo], ..., w[hi] in this order
ScanFrom(w, lo, hi, s_, omega_, b) ==
    IF lo > hi THEN b
    ELSE IF lo = hi THEN sub_iterate(w[lo][1], w[lo][2], s_, omega_, b)
    ELSE LET mid == (lo + hi) \div 2
         IN  \* the first half is scanned before the second one starts
             CHOOSE r \in {ScanFrom(w, mid + 1, hi, s_, omega_, left) :
                              left \in {ScanFrom(w, lo, mid, s_, omega_, b)}} : TRUE

iterate_trialp_durations(s_, omega_, bins, duration1, duration2, halfHour, b) ==
    LET w == ScanOrder(bins, duration1, duration2, halfHour)
    IN  ScanFrom(w, 1, Len(w), s_, omega_, b)

\* period_iteration: the new running sequences b, the new count and the
\* locals of the call (phase, work4, work5 of compute_folded; s, omega).
\* The progress figure of line 125 divides by len(trialPeriods) - 1, which
\* is nsearch >= 1 for every grid of TrialPeriodGrid; it is only logged.
period_iteration(complete_, trialPeriod, b, bins, mindur_, maxdur_, work1_, work2_, inerr_) ==
    LET it == initialize_iteration(b[1], b[2], b[3], trialPeriod, mindur_, maxdur_, bins)
        folded == compute_folded(bins, work1_, work2_, inerr_, it.trialFrequency, it.duration2)
        \* line 140: s, omega = (work4, work5); compute_weights is not applied
        s_ == folded.work4
        omega_ == folded.work5
    IN  [best |-> iterate_trialp_durations(s_, omega_, bins, it.duration1, it.duration2,
                     it.halfHour, <<it.srMax, it.transitDuration, it.transitPhase>>),
         phase |-> folded.phase, work4 |-> folded.work4, work5 |-> folded.work5,
         s |-> s_, omega |-> omega_, complete |-> complete_ + 1]

\* period as a fixed-point value
PeriodValue(p) == Num((p[1] * Scale) \div p[2])

compute_maximum_residual_curve(srMax_, trialPeriods_, transitPhase_, transitDuration_, intime, bins) ==
    LET bestSr == FMaxSeq(srMax_)
        \* numpy.nonzero(srMax == bestSr)[0][0]
        bestTrial == (CHOOSE i \in 1..Len(srMax_) :
                         /\ FEq(srMax_[i], bestSr)
                         /\ \A j \in 1..(i - 1) : ~FEq(srMax_[j], bestSr)) - 1
    IN  [bestSr |-> bestSr,
         srMax |-> [i \in 1..Len(srMax_) |-> FDiv(srMax_[i], bestSr)],
         bestTrial |-> bestTrial,
         transitDuration |-> [i \in 1..Len(transitDuration_) |->
             FMul(transitDuration_[i], FDiv(PeriodValue(trialPeriods_[i]), FromInt(HoursPerDay)))],
         BJD0 |-> [i \in 1..Len(transitPhase_) |->
             FAdd(FAdd(FDiv(FMul(transitPhase_[i], PeriodValue(trialPeriods_[i])), FromInt(bins)),
                       intime[1]), FromInt(BJDOffset))]]

\* ------------------------------------------------------------- state
VARIABLES
    flux_list,        \* argument: rows <<time, flux, eflux>>
    minper, maxper,   \* arguments (days)
    mindur, maxdur,   \* arguments (hours)
    nsearch, nbins,   \* arguments
    pc,               \* "start", "loop", "returned" or "raised"
    raised,           \* the exception that ended the call, or "none"
    intime, inerr,    \* lines 192, 194
    work1, work2,     \* lines 197-198
    trialPeriods,     \* line 207
    srMax, transitDuration, transitPhase,   \* the running sequences
    complete,         \* line 208
    phase, work4, work5,   \* locals of the last compute_folded
    s, omega,         \* the arrays the last period_iteration scanned
    result            \* the returned tuple, <<>> before the return

args == <<flux_list, minper, maxper, mindur, maxdur, nsearch, nbins>>
folded == <<phase, work4, work5, s, omega>>
vars == <<flux_list, minper, maxper, mindur, maxdur, nsearch, nbins, pc, raised,
          intime, inerr, work1, work2, trialPeriods, srMax, transitDuration,
          transitPhase, complete, phase, work4, work5, s, omega, result>>

\* ------------------------------------------------------------ inputs
TimeValues == 0..MaxTime
FluxValues == {NaN, FromInt(1), FromInt(3)}
\* flux errors 0, 1/4 and 1
ErrValues == {Num(0), Num(Scale \div 4), FromInt(1)}

Monotone(a) == \/ \A i \in 1..(Len(a) - 1) : a[i] < a[i + 1]
               \/ \A i \in 1..(Len(a) - 1) : a[i] > a[i + 1]

\* the enumerated series: up to MaxLen samples at distinct times, given in
\* ascending or in descending order of time, each flux a number or nan,
\* one flux error for the series
Series ==
    UNION {{[j \in 1..n |-> <<FromInt(t[j]), f[j], e>>] :
               t \in {x \in [1..n -> TimeValues] : Monotone(x)},
               f \in [1..n -> FluxValues], e \in ErrValues} : n \in 1..MaxLen}

\* <<minper, maxper, mindur, maxdur, nsearch, nbins>>
Parameters == {<<1, 2, 0, 24, 2, 3>>, <<1, 3, 12, 36, 1, 2>>, <<2, 3, 24, 48, 2, 3>>}

\* a flat baseline with a rectangular dip of depth `depth` that lasts
\* `days` days and returns every `period` days, sampled once a day
Synthetic(n, period, days, base, depth, e) ==
    [j \in 1..n |-> <<FromInt(j - 1),
                      FromInt(IF (j - 1) % period < days THEN base - depth ELSE base),
                      FromInt(e)>>]

SyntheticPeriods == {4, 5}
SyntheticDays == {1, 2}
SyntheticDepths == {2, 6}
SyntheticBases == {10}
SyntheticErrs == {1, 2}
\* samples of a synthetic series
SyntheticLen == 12

\* <<series, parameters>>: the injected period is inside [minper, maxper]
\* and the injected duration inside [mindur, maxdur]
SyntheticCalls ==
    {<<Synthetic(SyntheticLen, p, d, base, depth, e), <<3, 6, 24, 48, 3, b>>>> :
        p \in SyntheticPeriods, d \in SyntheticDays, depth \in SyntheticDepths,
        base \in SyntheticBases, e \in SyntheticErrs, b \in {4, 8}}

\* eight samples 1/50 day apart in three runs, searched with 49 bins: at
\* period 1 neighbouring bins are populated and halfHour is 2
DenseTimes == <<0, 2, 4, 6, Scale, Scale + 2, Scale + 4, 2 * Scale>>
DenseSeries ==
    {[j \in 1..Len(DenseTimes) |->
         <<Num(DenseTimes[j]), IF j <= 4 THEN f[j] ELSE FromInt(3), Num(Scale \div 4)>>] :
        f \in [1..4 -> {FromInt(1), FromInt(3)}]}
DenseCalls == DenseSeries \X {<<1, 2, 0, 2, 1, 49>>}

Calls == (Series \X Parameters) \cup SyntheticCalls \cup DenseCalls

InitCall(f, p) ==
    /\ flux_list = f
    /\ minper = p[1] /\ maxper = p[2] /\ mindur = p[3] /\ maxdur = p[4]
    /\ nsearch = p[5] /\ nbins = p[6]
    /\ pc = "start" /\ raised = "none"
    /\ intime = <<>> /\ inerr = <<>> /\ work1 = <<>> /\ work2 = <<>>
    /\ trialPeriods = <<>>
    /\ srMax = <<>> /\ transitDuration = <<>> /\ transitPhase = <<>>
    /\ complete = 0
    /\ phase = <<>> /\ work4 = <<>> /\ work5 = <<>> /\ s = <<>> /\ omega = <<>>
    /\ result = <<>>

Init == \E c \in Calls : InitCall(c[1], c[2])

\* ----------------------------------------------------------- actions
Unstarted == UNCHANGED <<intime, inerr, work1, work2, trialPeriods, srMax,
                         transitDuration, transitPhase, complete, folded, result>>

\* lines 185-197 when no flux is finite: intime[0] raises IndexError
PreprocessEmpty ==
    /\ pc = "start"
    /\ flux_array_finite(flux_list) = <<>>
    /\ pc' = "raised" /\ raised' = "IndexError"
    /\ Unstarted /\ UNCHANGED args

\* lines 185-200 when check_period raises (line 31)
PreprocessRejected ==
    /\ pc = "start"
    /\ \E fin \in {flux_array_finite(flux_list)} :
           /\ fin # <<>>
           /\ check_period(Col(fin, 1), maxper)
    /\ pc' = "raised" /\ raised' = "Exception"
    /\ Unstarted /\ UNCHANGED args

\* lines 185-208
Preprocess ==
    /\ pc = "start"
    /\ \E fin \in {flux_array_finite(flux_list)} :
           /\ fin # <<>>
           /\ ~check_period(Col(fin, 1), maxper)
           /\ intime' = Col(fin, 1)
           /\ inerr' = Col(fin, 3)
           /\ work1' = [j \in 1..Len(fin) |-> FSub(fin[j][1], fin[1][1])]
           /\ \E mean \in {FMean(Col(fin, 2))} :
                  work2' = [j \in 1..Len(fin) |-> FSub(fin[j][2], mean)]
    /\ trialPeriods' = TrialPeriodGrid(minper, maxper, nsearch)
    /\ srMax' = <<>> /\ transitDuration' = <<>> /\ transitPhase' = <<>>
    /\ complete' = 0
    /\ pc' = "loop"
    /\ UNCHANGED <<raised, folded, result>> /\ UNCHANGED args

\* lines 209-213: one pass of the loop
PeriodIteration ==
    /\ pc = "loop"
    /\ complete < Len(trialPeriods)
    /\ \E r \in {period_iteration(complete, trialPeriods[complete + 1],
                    <<srMax, transitDuration, transitPhase>>, nbins, mindur, maxdur,
                    work1, work2, inerr)} :
           /\ srMax' = r.best[1]
           /\ transitDuration' = r.best[2]
           /\ transitPhase' = r.best[3]
           /\ complete' = r.complete
           /\ phase' = r.phase /\ work4' = r.work4 /\ work5' = r.work5
           /\ s' = r.s /\ omega' = r.omega
    /\ UNCHANGED <<pc, raised, intime, inerr, work1, work2, trialPeriods, result>>
    /\ UNCHANGED args

\* lines 215-220; srMax and transitDuration are changed in place
Finalize ==
    /\ pc = "loop"
    /\ complete = Len(trialPeriods)
    /\ \E c \in {compute_maximum_residual_curve(srMax, trialPeriods, transitPhase,
                    transitDuration, intime, nbins)} :
           /\ result' = <<c.bestSr, c.srMax, c.bestTrial, trialPeriods,
                          c.transitDuration, c.BJD0>>
           /\ srMax' = c.srMax
           /\ transitDuration' = c.transitDuration
    /\ pc' = "returned"
    /\ UNCHANGED <<raised, intime, inerr, work1, work2, trialPeriods, transitPhase,
                   complete, folded>>
    /\ UNCHANGED args

Next == PreprocessEmpty \/ PreprocessRejected \/ Preprocess \/ PeriodIteration \/ Finalize

Spec == Init /\ [][Next]_vars

\* -------------------------------------------------------- properties
\* What the specification says of the input, read off flux_list itself.

\* the samples with a finite flux, each row intact
FiniteSamples == SelectSeq(flux_list, IsFiniteRow)
FiniteTimes == {FiniteSamples[j][1].v : j \in 1..Len(FiniteSamples)}
MinOf(S) == CHOOSE x \in S : \A y \in S : x <= y
MaxOf(S) == CHOOSE x \in S : \A y \in S : x >= y
\* last time - first time of the finite samples sorted by time
SampleSpan == Num(MaxOf(FiniteTimes) - MinOf(FiniteTimes))

RECURSIVE SortRowsByTime(_)
SortRowsByTime(a) ==
    IF a = <<>> THEN <<>>
    ELSE LET i == CHOOSE i \in 1..Len(a) : \A j \in 1..Len(a) : a[i][1].v <= a[j][1].v
         IN  <<a[i]>> \o SortRowsByTime(SubSeq(a, 1, i - 1) \o SubSeq(a, i + 1, Len(a)))

Searching == pc \in {"loop", "returned"}
NoPartialResult ==
    /\ srMax = <<>> /\ transitDuration = <<>> /\ transitPhase = <<>>
    /\ complete = 0 /\ s = <<>> /\ omega = <<>> /\ result = <<>>

\* C1: whenever maxper is larger than last time - first time of the
\* finite-flux samples, the call ends in the error of check_period and no
\* trial period is folded, no sequence is started and nothing is returned.
C1_RejectsLongPeriod ==
    (FiniteSamples # <<>> /\ FGt(FromInt(maxper), SampleSpan))
        => /\ pc \in {"start", "raised"}
           /\ pc = "raised" => raised = "Exception"
           /\ NoPartialResult

\* C2: the returned normalized curve has nsearch + 1 entries, each in
\* [0, 1], and the entry at bestTrial is 1.0.
C2_UnitPeakCurve ==
    pc = "returned"
        => /\ Len(result[2]) = nsearch + 1
           /\ \A i \in 1..Len(result[2]) :
                 /\ IsNum(result[2][i])
                 /\ 0 <= result[2][i].v /\ result[2][i].v <= Scale
           /\ result[2][result[3] + 1] = FromInt(1)

\* C3: the series handed to the search is the finite-flux input rows sorted
\* by time, each row intact, with the first time and the mean flux
\* subtracted.
C3_RowsIntact ==
    Searching
        => LET rows == SortRowsByTime(FiniteSamples)
               mean == FMean(Col(rows, 2))
           IN  /\ Len(work1) = Len(rows) /\ Len(work2) = Len(rows)
               /\ Len(inerr) = Len(rows)
               /\ \A j \in 1..Len(rows) :
                     /\ work1[j] = FSub(rows[j][1], rows[1][1])
                     /\ work2[j] = FSub(rows[j][2], mean)
                     /\ inerr[j] = rows[j][3]

\* the number of samples compute_folded puts in bin i (0-based)
Population(i) == Cardinality(elements(phase, i))

\* C4: after a fold every sample has a phase bin in [0, nbins) and the
\* populations of the nbins bins add up to the number of finite-flux samples.
C4_BinsPartitionSamples ==
    (Searching /\ complete > 0)
        => /\ Len(phase) = Len(FiniteSamples)
           /\ \A j \in 1..Len(phase) : phase[j] \in 0..(nbins - 1)
           /\ SumInt([b \in 1..nbins |-> Population(b - 1)]) = Len(FiniteSamples)

C4_Witness ==
    /\ Searching /\ complete > 0 /\ Len(phase) >= 2
    /\ \E i, j \in 1..Len(phase) : phase[i] # phase[j]
    /\ \E j \in 1..Len(flux_list) : ~IsFiniteRow(flux_list[j])

\* C5: a series without any finite flux ends in a decided outcome, an empty
\* result or the error of check_period, never in another exception.
C5_EmptySeriesDecided ==
    (FiniteSamples = <<>> /\ pc # "start")
        => \/ pc = "returned"
           \/ pc = "raised" /\ raised = "Exception"

\* the grid step of the trial periods
GridStep == RDiv(RSub(RInt(maxper), RInt(minper)), RInt(nsearch))
RAbs(a) == <<IAbs(a[1]), a[2]>>
RLeq(a, b) == ~RLess(b, a)

\* the setup of the period scanned last
LastIt == initialize_iteration(<<>>, <<>>, <<>>, trialPeriods[complete], mindur, maxdur, nbins)

\* flux_list is the flat baseline with the dip of period p (days), duration
\* d (days) and the given depth
IsSynthetic(p, d, base, depth, e) ==
    flux_list = Synthetic(SyntheticLen, p, d, base, depth, e)

\* the best period is within one grid step of p and the duration returned
\* for it is within halfHour bins, in hours, of d days
Recovers(p, d) ==
    LET best == result[3] + 1
        P == trialPeriods[best]
        it == initialize_iteration(<<>>, <<>>, <<>>, P, mindur, maxdur, nbins)
        \* halfHour bins of P / nbins days each, in hours
        tolerance == PeriodValue(RMul(P, R(it.halfHour * HoursPerDay, nbins)))
        hours == result[5][best]
    IN  /\ RLeq(RAbs(RSub(P, RInt(p))), GridStep)
        /\ IsNum(hours)
        /\ IAbs(hours.v - d * HoursPerDay * Scale) <= tolerance.v

\* C6: for a flat baseline with one rectangular dip of known depth, duration
\* and period inside the searched ranges, the returned best period is within
\* one grid step of the injected period and the duration in hours at that
\* index within one halfHour step of the injected duration.
C6_RecoversInjectedTransit ==
    pc = "returned"
        => \A p \in SyntheticPeriods, d \in SyntheticDays, depth \in SyntheticDepths,
              base \in SyntheticBases, e \in SyntheticErrs :
              (/\ IsSynthetic(p, d, base, depth, e)
               /\ minper <= p /\ p <= maxper
               /\ mindur <= d * HoursPerDay /\ d * HoursPerDay <= maxdur)
                  => Recovers(p, d)

\* the inverse square of the dispersion of bin b (1-based)
InvSquare(b) == FDiv(FromInt(1), FMul(work5[b], work5[b]))
\* the weight the specification gives bin b: normalized over the nbins bins
NormalizedWeight(b) == FDiv(InvSquare(b), nansum([i \in 1..nbins |-> InvSquare(i)]))
Close(a, b) == \/ a = b
               \/ IsNum(a) /\ IsNum(b) /\ IAbs(a.v - b.v) <= 1

\* C7: the weight of a phase bin in the window search is the inverse square
\* of its dispersion over the sum of the inverse squares of the nbins bins,
\* so that the weights of the nbins bins add up to 1.
C7_NormalizedWeights ==
    (Searching /\ complete > 0)
        => /\ \A b \in 1..nbins : Close(omega[b], NormalizedWeight(b))
           /\ LET total == nansum(SubSeq(omega, 1, nbins))
              IN  IAbs(total.v - Scale) <= nbins

\* the windows of the period scanned last, in scan order, and their statistic
Windows == ScanOrder(nbins, LastIt.duration1, LastIt.duration2, LastIt.halfHour)
Stats == [x \in 1..Len(Windows) |-> window_sr(Windows[x][1], Windows[x][2], s, omega)]
Center(w) == (w[1] + w[1] + w[2]) \div 2

\* the windows are every start in [0, nbins) with every duration
\* duration1, duration1 + halfHour, ... up to duration2
WindowGrid(it, w) ==
    /\ it.duration1 >= 2
    /\ it.duration2 >= it.duration1 + 1
    /\ it.halfHour >= 1
    /\ {w[x] : x \in 1..Len(w)}
         = {<<i1, d>> \in (0..(nbins - 1)) \X (it.duration1..it.duration2) :
               (d - it.duration1) % it.halfHour = 0}

\* srMax of the last period is at least every statistic that is not nan
BoundsEveryWindow(st) ==
    \A x \in 1..Len(st) : ~IsNaN(st[x]) => FGe(srMax[complete], st[x])

\* the last entry is the first window, in scan order, that attains srMax
RecordsFirstBest(w, st) ==
    \E x \in 1..Len(w) :
        /\ FEq(st[x], srMax[complete])
        /\ \A y \in 1..(x - 1) : ~FEq(st[y], srMax[complete])
        /\ transitDuration[complete] = FromInt(w[x][2])
        /\ transitPhase[complete] = FromInt(Center(w[x]))

KeepsInitialEntry ==
    /\ srMax[complete] = Num(0)
    /\ transitDuration[complete] = NaN
    /\ transitPhase[complete] = NaN

\* C8 as stated: the last slot holds the maximum over the scanned windows,
\* recorded at the first window that attains it whenever some window has a
\* statistic that is not nan, and the initial entry when every window is nan.
C8_FirstBestOfAllWindows ==
    (pc = "loop" /\ complete > 0)
        => \E it \in {LastIt} : \E w \in {Windows} : \E st \in {Stats} :
              /\ WindowGrid(it, w)
              /\ BoundsEveryWindow(st)
              /\ (\E x \in 1..Len(w) : ~IsNaN(st[x])) => RecordsFirstBest(w, st)
              /\ (\A x \in 1..Len(w) : IsNaN(st[x])) => KeepsInitialEntry

\* C8 amended: the first best window is recorded when some window has a
\* positive statistic; a period whose windows are all nan or zero keeps the
\* initial entry (0, nan, nan).
C8_FirstPositiveBest ==
    (pc = "loop" /\ complete > 0)
        => \E it \in {LastIt} : \E w \in {Windows} : \E st \in {Stats} :
              /\ WindowGrid(it, w)
              /\ BoundsEveryWindow(st)
              /\ (\E x \in 1..Len(w) : FGt(st[x], Num(0))) => RecordsFirstBest(w, st)
              /\ (\A x \in 1..Len(w) : ~FGt(st[x], Num(0))) => KeepsInitialEntry

\* a period with nan windows whose best statistic, a positive one, is
\* attained by two windows of different centres, the earlier one recorded
C8_Witness ==
    /\ pc = "loop" /\ complete > 0
    /\ \E w \in {Windows} : \E st \in {Stats} :
          /\ \E x \in 1..Len(w) : IsNaN(st[x])
          /\ \E x, y \in 1..Len(w) :
                /\ x < y
                /\ FGt(st[x], Num(0))
                /\ FEq(st[x], srMax[complete]) /\ FEq(st[y], srMax[complete])
                /\ transitDuration[complete] = FromInt(w[x][2])
                /\ transitPhase[complete] = FromInt(Center(w[x]))
                /\ Center(w[x]) # Center(w[y])

\* C9: the folded arrays have nbins + duration2 entries, entry nbins + k
\* repeats entry k, and every scanned window lies inside the arrays.
C9_PaddedByLongestWindow ==
    (Searching /\ complete > 0)
        => /\ Len(s) = nbins + LastIt.duration2
           /\ Len(omega) = nbins + LastIt.duration2
           /\ \A k \in 1..LastIt.duration2 :
                 s[nbins + k] = s[k] /\ omega[nbins + k] = omega[k]
           /\ \E w \in {Windows} : \A x \in 1..Len(w) : w[x][1] + w[x][2] <= Len(s)

\* the entry the fold and search give period j when run from empty sequences
Alone(j) == period_iteration(0, trialPeriods[j], <<<<>>, <<>>, <<>>>>, nbins, mindur,
                             maxdur, work1, work2, inerr).best

\* C10: after k passes of the loop each running sequence has k entries and
\* entry j is what period j gives on its own, so a pass adds its slot and
\* leaves the earlier ones as they were.
C10_IndependentSlots ==
    pc = "loop"
        => /\ Len(srMax) = complete
           /\ Len(transitDuration) = complete
           /\ Len(transitPhase) = complete
           /\ \A j \in 1..complete : \E a \in {Alone(j)} :
                 /\ srMax[j] = a[1][1]
                 /\ transitDuration[j] = a[2][1]
                 /\ transitPhase[j] = a[3][1]

\* two periods done, with different positive statistics
C10_Witness ==
    /\ pc = "loop" /\ complete >= 2
    /\ FGt(srMax[1], Num(0)) /\ FGt(srMax[2], Num(0))
    /\ srMax[1] # srMax[2]

====
